---- MODULE Spec2Model ----
(***************************************************************************)
(* A model of the output-dispatch engine of depthai_sdk: per-output        *)
(* bounded queues (XoutBase), the dispatch loop (OakCamera.poll ->         *)
(* XoutBase.checkQueue), the sequence-number join (SyncConfig.new_packet), *)
(* the output name resolver (OutputConfig.find_new_name / setup), the      *)
(* registration, build and teardown of the camera (OakCamera.callback,     *)
(* visualize, build, start, __exit__) and VideoRecorder.                   *)
(***************************************************************************)
EXTENDS Integers, Sequences, FiniteSets, TLC

(***************************************************************************)
(* Bounds of the model.                                                    *)
(***************************************************************************)
\* Largest sequence number a producer stamps on a packet.
MaxSeq == 2
\* Number of packets one producer pushes in the join scenarios.
MaxPush == 3
\* Number of packets the producer pushes in the queue-overflow scenario.
MaxBurst == 12
\* Largest number of used names a name-resolution scenario starts from.
MaxUsed == 2
\* Number of OutputConfig.setup calls in a name-resolution scenario.
MaxSetups == 3
\* Number of frames one stream delivers, and one writer is given, in the
\* camera and recorder scenarios.
MaxFrames == 2
\* Number of VideoRecorder.close calls in a recorder scenario.
MaxCloses == 2
\* Number of callback() / visualize() calls in a camera scenario, and the
\* largest number of templates they leave.
MaxRegistrations == 2
MaxTemplates == 2
\* build() and show_graph() calls of one run of the application
MaxCalls == 2
\* create_nn() calls of one run of the application
MaxComponents == 2
\* Messages passed to new_ros_msg: one more than the ROS queue holds
MaxRosMsgs == 31
\* Messages among them on the second topic
MaxSecondTopic == 1

(***************************************************************************)
(* Program constants.                                                      *)
(***************************************************************************)
\* A mutant of QueueMaxsize: one slot too many.
QueueMaxsizeOffByOne == 10 + 1

\* Queue(maxsize=10) in XoutBase.setup_base.
QueueMaxsize == 10
\* Eviction horizon of the synchronizer: a group more than Horizon behind
\* the highest sequence number seen is discarded.
Horizon == 1

VARIABLES
    oak_out_streams, \* OakDevice.oak_out_streams: the outputs the loop services
    queue,           \* queue[i]: XoutBase.queue of output i
    fps,             \* fps[i]: number of XoutBase._fps.next_iter() calls
    pushed,          \* pushed[i]: every packet handed to newMsg of output i
    pc,              \* position of the dispatch loop
    idx,             \* output the running poll cycle checks next
    polled,          \* outputs checked so far in the current / last poll cycle
    key,             \* the key the last OakCamera.poll read from cv2.waitKey
    ret,             \* how the last OakCamera.poll ended
    msgs,            \* SequenceNumSync groups: seq -> (stream name -> packet)
    maxSeen,         \* highest sequence number the synchronizer has observed
    lowWaterMark,    \* sequence number of the last emitted group
    received,        \* packets handed to SyncConfig.new_packet, in order
    emitted,         \* bundles handed to SyncConfig.cb, in order
    emittedAt,       \* emittedAt[k]: Len(received) when emitted[k] was emitted
    evicted,         \* sequence numbers whose group was discarded unemitted
    delivered,       \* <<output, packet>> handed to a user callback, in order
    names,           \* the names list OutputConfig.setup appends to
    setups,          \* every OutputConfig.setup so far: the name requested,
                     \* the names list before it, and the final name
    out_templates,   \* OakCamera._out_templates
    pipeline_built,  \* OakCamera._pipeline_built
    registrations,   \* every callback() / visualize() call so far
    components,      \* OakCamera.components
    builds,          \* every build() / start() / show_graph() call so far
    other,           \* a second OakCamera object of the same process
    recorders,       \* the VideoRecorder objects created so far
    closes,          \* how every VideoRecorder.close() call so far ended
    ros              \* a Ros2Streaming object and its ros_thread

engineVars == <<oak_out_streams, queue, fps, pushed, pc, idx, polled, key, ret>>
syncVars   == <<msgs, maxSeen, lowWaterMark, received, emitted, emittedAt,
                evicted>>
nameVars   == <<names, setups>>
cameraVars == <<out_templates, pipeline_built, registrations, components,
                builds, other>>
recordVars == <<recorders, closes>>
rosVars    == <<ros>>
vars == <<oak_out_streams, queue, fps, pushed, pc, idx, polled, key, ret,
          msgs, maxSeen, lowWaterMark, received, emitted, emittedAt, evicted,
          delivered, names, setups,
          out_templates, pipeline_built, registrations, components, builds,
          other, recorders, closes, ros>>

(***************************************************************************)
(* Small helpers on finite maps.                                           *)
(***************************************************************************)
\* dict[k] = v
DictPut(f, k, v) == [x \in (DOMAIN f) \cup {k} |-> IF x = k THEN v ELSE f[x]]
\* dict restricted to the keys in K
DictKeep(f, K) == [x \in (DOMAIN f) \cap K |-> f[x]]
EmptyDict == [x \in {} |-> 0]

Outputs == 1..Len(oak_out_streams)

(***************************************************************************)
(* find_new_name.  A name that goes through it is the sequence of its      *)
(* characters.                                                             *)
(***************************************************************************)
Digits == <<"0", "1", "2", "3", "4", "5", "6", "7", "8", "9">>

\* The character U+00B2 (superscript two): numeric, but no decimal digit.
SuperscriptTwo == "sup2"

IsDecimal(c) == \E k \in 1..10 : Digits[k] = c

DigitVal(c) == (CHOOSE k \in 1..10 : Digits[k] = c) - 1

\* str.isnumeric(): not empty, and every character has a numeric value.
isnumeric(tok) ==
    /\ tok # <<>>
    /\ \A k \in 1..Len(tok) : IsDecimal(tok[k]) \/ tok[k] = SuperscriptTwo

\* int(tok) raises ValueError unless every character is a decimal digit.
int_raises(tok) == \E k \in 1..Len(tok) : ~IsDecimal(tok[k])

RECURSIVE int(_)
int(tok) ==
    IF tok = <<>> THEN 0
    ELSE 10 * int(SubSeq(tok, 1, Len(tok) - 1)) + DigitVal(tok[Len(tok)])

RECURSIVE str(_)
str(n) ==
    IF n < 10 THEN <<Digits[n + 1]>>
    ELSE str(n \div 10) \o <<Digits[(n % 10) + 1]>>

\* The value standing for a ValueError leaving find_new_name.
ValueError == <<"ValueError">>

\* x in list
In(x, list) == \E k \in 1..Len(list) : list[k] = x

\* Position of the last ' ' of the name, 0 when it has none.
last_space(name) ==
    LET S == {k \in 1..Len(name) : name[k] = " "}
    IN  IF S = {} THEN 0 ELSE CHOOSE k \in S : \A j \in S : j <= k

\* One pass of the loop body of find_new_name: arr = name.split(' '),
\* num = arr[-1]; a numeric num is replaced by str(int(num) + 1), otherwise
\* " 2" is appended.
rewrite(name) ==
    LET cut == last_space(name)
        num == SubSeq(name, cut + 1, Len(name))
    IN  IF isnumeric(num)
        THEN IF int_raises(num) THEN ValueError
             ELSE SubSeq(name, 1, cut) \o str(int(num) + 1)
        ELSE name \o <<" ", "2">>

\* A mutant of find_new_name: the rewritten name is returned without the
\* membership test.
find_new_name_once(name, list) == rewrite(name)

\* find_new_name(name, names): rewrite until the name is not in names.
RECURSIVE find_new_name(_, _)
find_new_name(name, list) ==
    LET new == rewrite(name)
    IN  IF new = ValueError THEN ValueError
        ELSE IF ~In(new, list) THEN new
        ELSE find_new_name(new, list)

(***************************************************************************)
(* XoutBase: queue set-up, producer side, dispatch side.                   *)
(***************************************************************************)
\* setup_base: self.queue = Queue(maxsize=10)
setup_base == <<>>

\* Queue.full()
full(q) == Len(q) >= QueueMaxsize

\* Non-blocking push of the BoundedPacketQueue: at capacity the new packet is
\* dropped and the buffered ones are kept.
put_nowait(q, packet) == IF full(q) THEN q ELSE Append(q, packet)

\* A mutant of newMsg: a blocking put, which waits for a free slot.
newMsg_blocking(i, n) ==
    LET packet == [name |-> oak_out_streams[i].name, seq |-> n,
                   id |-> Len(pushed[i]) + 1]
    IN  /\ ~full(queue[i])
        /\ pushed' = [pushed EXCEPT ![i] = Append(@, packet)]
        /\ queue' = [queue EXCEPT ![i] = Append(@, packet)]
        /\ UNCHANGED <<oak_out_streams, fps, pc, idx, polled, key, ret>>
        /\ UNCHANGED syncVars
        /\ UNCHANGED delivered
        /\ UNCHANGED nameVars
        /\ UNCHANGED cameraVars
        /\ UNCHANGED recordVars
    /\ UNCHANGED rosVars

\* A mutant of newMsg: the producer thread hands the packet to the join
\* itself instead of queueing it.
newMsg_inline(i, n) ==
    LET packet == [name |-> oak_out_streams[i].name, seq |-> n,
                   id |-> Len(pushed[i]) + 1]
    IN  /\ pushed' = [pushed EXCEPT ![i] = Append(@, packet)]
        /\ received' = Append(received, packet)
        /\ UNCHANGED <<msgs, maxSeen, lowWaterMark, emitted, emittedAt, evicted>>
        /\ UNCHANGED <<oak_out_streams, queue, fps, pc, idx, polled, key, ret>>
        /\ UNCHANGED delivered
        /\ UNCHANGED nameVars
        /\ UNCHANGED cameraVars
        /\ UNCHANGED recordVars
    /\ UNCHANGED rosVars

\* newMsg(name, msg): called on a producer thread for every device message.
newMsg(i, n) ==
    LET packet == [name |-> oak_out_streams[i].name, seq |-> n,
                   id |-> Len(pushed[i]) + 1]
    IN  /\ pushed' = [pushed EXCEPT ![i] = Append(@, packet)]
        /\ queue' = [queue EXCEPT ![i] = put_nowait(@, packet)]
        /\ UNCHANGED <<oak_out_streams, fps, pc, idx, polled, key, ret>>
        /\ UNCHANGED syncVars
        /\ UNCHANGED delivered
        /\ UNCHANGED nameVars
        /\ UNCHANGED cameraVars
        /\ UNCHANGED recordVars
    /\ UNCHANGED rosVars

\* Sequence number of the last packet a producer pushed (0 before the first).
lastSeq(i) == IF pushed[i] = <<>> THEN 0 ELSE pushed[i][Len(pushed[i])].seq

\* A device stream: sequence numbers are non-decreasing, gaps allowed.
Producer(i) ==
    /\ Len(pushed[i]) < MaxPush
    /\ \E n \in lastSeq(i)..MaxSeq : newMsg(i, n)

\* A device stream delivering consecutive frames faster than they are popped.
BurstProducer(i) ==
    /\ Len(pushed[i]) < MaxBurst
    /\ newMsg(i, Len(pushed[i]))

(***************************************************************************)
(* SequenceNumSync and SyncConfig: the sequence-number join.               *)
(***************************************************************************)
\* A mutant of stream_num: one stream fewer than the binding has.
stream_num_short ==
    Cardinality({i \in Outputs : oak_out_streams[i].callback = "new_packet"}) - 1

\* SequenceNumSync.__init__(self, len(outputs)): the number of streams of
\* the synced binding.
stream_num ==
    Cardinality({i \in Outputs : oak_out_streams[i].callback = "new_packet"})

\* A mutant of sync: the first packet of a stream for a sequence number is
\* kept, a later one is ignored.
sync_first_wins(seq_num, name, msg) ==
    LET group == IF seq_num \in DOMAIN msgs THEN msgs[seq_num] ELSE EmptyDict
        grown == IF name \in DOMAIN group THEN group
                 ELSE DictPut(group, name, msg)
        all   == DictPut(msgs, seq_num, grown)
        done  == Cardinality(DOMAIN grown) = stream_num
        high  == IF seq_num > maxSeen THEN seq_num ELSE maxSeen
        rest  == IF done THEN DictKeep(all, (DOMAIN all) \ {seq_num}) ELSE all
        fresh == {k \in DOMAIN rest : high - k <= Horizon}
    IN  [msgs         |-> DictKeep(rest, fresh),
         maxSeen      |-> high,
         lowWaterMark |-> IF done THEN seq_num ELSE lowWaterMark,
         synced       |-> IF done THEN {grown} ELSE {},
         evicted      |-> (DOMAIN rest) \ fresh]

\* A mutant of sync: incomplete groups are never discarded.
sync_keeps_all(seq_num, name, msg) ==
    LET group == IF seq_num \in DOMAIN msgs THEN msgs[seq_num] ELSE EmptyDict
        grown == DictPut(group, name, msg)
        all   == DictPut(msgs, seq_num, grown)
        done  == Cardinality(DOMAIN grown) = stream_num
        high  == IF seq_num > maxSeen THEN seq_num ELSE maxSeen
        rest  == IF done THEN DictKeep(all, (DOMAIN all) \ {seq_num}) ELSE all
    IN  [msgs         |-> rest,
         maxSeen      |-> high,
         lowWaterMark |-> IF done THEN seq_num ELSE lowWaterMark,
         synced       |-> IF done THEN {grown} ELSE {},
         evicted      |-> {}]

\* SequenceNumSync.sync(seq_num, name, msg): insert the packet into the group
\* of its sequence number (last write wins); a group holding stream_num
\* streams is removed and returned; groups more than Horizon behind the
\* highest sequence number seen are discarded.  synced is {} for None.
sync(seq_num, name, msg) ==
    LET group == IF seq_num \in DOMAIN msgs THEN msgs[seq_num] ELSE EmptyDict
        grown == DictPut(group, name, msg)
        all   == DictPut(msgs, seq_num, grown)
        done  == Cardinality(DOMAIN grown) = stream_num
        high  == IF seq_num > maxSeen THEN seq_num ELSE maxSeen
        rest  == IF done THEN DictKeep(all, (DOMAIN all) \ {seq_num}) ELSE all
        fresh == {k \in DOMAIN rest : high - k <= Horizon}
    IN  [msgs         |-> DictKeep(rest, fresh),
         maxSeen      |-> high,
         lowWaterMark |-> IF done THEN seq_num ELSE lowWaterMark,
         synced       |-> IF done THEN {grown} ELSE {},
         evicted      |-> (DOMAIN rest) \ fresh]

\* A mutant of new_packet: the completed bundle is not passed to self.cb.
new_packet_no_cb(packet) ==
    LET r == sync(packet.seq, packet.name, packet)
    IN  /\ msgs' = r.msgs
        /\ maxSeen' = r.maxSeen
        /\ lowWaterMark' = r.lowWaterMark
        /\ received' = Append(received, packet)
        /\ evicted' = evicted \cup r.evicted
        /\ UNCHANGED <<emitted, emittedAt, delivered>>

\* SyncConfig.new_packet(ctx): join the packet; a completed bundle goes to
\* the user callback self.cb at once.
new_packet(packet) ==
    LET r == sync(packet.seq, packet.name, packet)
    IN  /\ msgs' = r.msgs
        /\ maxSeen' = r.maxSeen
        /\ lowWaterMark' = r.lowWaterMark
        /\ received' = Append(received, packet)
        /\ evicted' = evicted \cup r.evicted
        /\ emitted' = IF r.synced # {}
                      THEN Append(emitted, CHOOSE b \in r.synced : TRUE)
                      ELSE emitted
        /\ emittedAt' = IF r.synced # {}
                        THEN Append(emittedAt, Len(received) + 1)
                        ELSE emittedAt
        /\ UNCHANGED delivered

(***************************************************************************)
(* The dispatch loop.                                                      *)
(***************************************************************************)
\* checkQueue returned normally: OakDevice.checkSync goes on to the next
\* output, and after the last one OakCamera.poll returns True.
checkSync_next(i) ==
    IF i < Len(oak_out_streams)
    THEN pc' = "polling" /\ idx' = i + 1 /\ ret' = ret
    ELSE pc' = "idle" /\ idx' = 0 /\ ret' = "True"

\* An exception leaving checkQueue: neither checkSync, poll nor the loop of
\* start() has a handler, so the poll cycle and the loop end.
uncaught ==
    /\ pc' = "crashed"
    /\ idx' = 0
    /\ ret' = "raised"

\* The sink of output i, invoked by checkQueue with the packet it popped.
invoke_sink(i, packet) ==
    IF oak_out_streams[i].visualizer
    THEN \* self.visualize(packet)
         /\ delivered' = Append(delivered,
                [out |-> i, sink |-> "visualize", packet |-> packet])
         /\ UNCHANGED syncVars
         /\ checkSync_next(i)
    ELSE \* self.callback(CallbackContext(packet))
         CASE oak_out_streams[i].callback = "new_packet" ->
                  new_packet(packet) /\ checkSync_next(i)
           [] oak_out_streams[i].callback = "user" ->
                  /\ delivered' = Append(delivered,
                         [out |-> i, sink |-> "callback", packet |-> packet])
                  /\ UNCHANGED syncVars
                  /\ checkSync_next(i)
           [] oak_out_streams[i].callback = "raises" ->
                  /\ UNCHANGED delivered
                  /\ UNCHANGED syncVars
                  /\ uncaught

\* A mutant of get: the oldest packet is read and stays in the queue.
get_peek(q) == [packet |-> Head(q), rest |-> q]

\* A mutant of get: the newest packet is taken instead of the oldest.
get_newest(q) == [packet |-> q[Len(q)], rest |-> SubSeq(q, 1, Len(q) - 1)]

\* self.queue.get(block=False) on a queue that is not empty: the oldest
\* packet leaves the queue.
get(q) == [packet |-> Head(q), rest |-> Tail(q)]

\* The entry None of a queue; every packet has a positive id.
None == [id |-> 0]

\* A mutant of checkQueue: the get blocks, so the call waits on an empty
\* queue until a producer has put an entry.
checkQueue_blocking(i) ==
    /\ pc = "polling"
    /\ idx = i
    /\ queue[i] # <<>>
    /\ polled' = polled \cup {i}
    /\ IF get(queue[i]).packet = None
       THEN /\ queue' = [queue EXCEPT ![i] = get(@).rest]
            /\ UNCHANGED <<fps, delivered>>
            /\ UNCHANGED syncVars
            /\ checkSync_next(i)
       ELSE /\ queue' = [queue EXCEPT ![i] = get(@).rest]
            /\ fps' = [fps EXCEPT ![i] = @ + 1]
            /\ invoke_sink(i, get(queue[i]).packet)
    /\ UNCHANGED <<oak_out_streams, pushed, key>>
    /\ UNCHANGED nameVars
    /\ UNCHANGED cameraVars
    /\ UNCHANGED recordVars
    /\ UNCHANGED rosVars

\* XoutBase.checkQueue(block=False): one non-blocking get; queue.Empty is the
\* only exception handled.  An entry that is None leaves the queue and
\* nothing else happens.
checkQueue(i) ==
    /\ pc = "polling"
    /\ idx = i
    /\ polled' = polled \cup {i}
    /\ IF queue[i] = <<>>
       THEN /\ UNCHANGED <<queue, fps, delivered>>
            /\ UNCHANGED syncVars
            /\ checkSync_next(i)
       ELSE IF get(queue[i]).packet = None
       THEN /\ queue' = [queue EXCEPT ![i] = get(@).rest]
            /\ UNCHANGED <<fps, delivered>>
            /\ UNCHANGED syncVars
            /\ checkSync_next(i)
       ELSE /\ queue' = [queue EXCEPT ![i] = get(@).rest]
            /\ fps' = [fps EXCEPT ![i] = @ + 1]
            /\ invoke_sink(i, get(queue[i]).packet)
    /\ UNCHANGED <<oak_out_streams, pushed, key>>
    /\ UNCHANGED nameVars
    /\ UNCHANGED cameraVars
    /\ UNCHANGED recordVars
    /\ UNCHANGED rosVars

\* OakCamera.poll: a 'q' key press returns False, which ends the loop of
\* start(blocking=True); otherwise the outputs are checked in order.
poll ==
    /\ pc = "idle"
    /\ \E k \in {"q", "other"} :
          /\ key' = k
          /\ polled' = {}
          /\ IF k = "q"
             THEN pc' = "stopped" /\ idx' = 0 /\ ret' = "False"
             ELSE IF Len(oak_out_streams) = 0
                  THEN pc' = "idle" /\ idx' = 0 /\ ret' = "True"
                  ELSE pc' = "polling" /\ idx' = 1 /\ ret' = "running"
    /\ UNCHANGED <<oak_out_streams, queue, fps, pushed, delivered>>
    /\ UNCHANGED syncVars
    /\ UNCHANGED nameVars
    /\ UNCHANGED cameraVars
    /\ UNCHANGED recordVars
    /\ UNCHANGED rosVars

(***************************************************************************)
(* VideoRecorder.                                                          *)
(***************************************************************************)
\* VideoRecorder(): _closed is False and _writer is an empty dict.  writer
\* lists the values of _writer in insertion order.
VideoRecorder == [closed |-> FALSE, writer |-> <<>>]

\* A writer object: its stream name, whether its close() raises, the frames
\* written to it and the number of close() calls that completed on it.
Writer(name, faulty) ==
    [name |-> name, faulty |-> faulty, frames |-> 0, closed |-> 0]

\* self._writer[name] = writer
WriterPut(W, w) ==
    IF \E k \in 1..Len(W) : W[k].name = w.name
    THEN [k \in 1..Len(W) |-> IF W[k].name = w.name THEN w ELSE W[k]]
    ELSE Append(W, w)

\* VideoRecorder.update(path, device, xouts): one writer per output, under
\* the output's name.  bad holds the names whose writer will fail to close.
RECURSIVE VideoRecorder_update(_, _, _)
VideoRecorder_update(rec, xouts, bad) ==
    IF xouts = <<>> THEN rec
    ELSE VideoRecorder_update(
             [rec EXCEPT !.writer =
                  WriterPut(@, Writer(Head(xouts), Head(xouts) \in bad))],
             Tail(xouts), bad)

\* VideoRecorder.close(): nothing when _closed; otherwise _closed is set and
\* the writers are closed in dict order.  There is no handler around
\* writer.close(): the first one that raises ends the loop, and the
\* exception leaves close().
VideoRecorder_close(rec) ==
    IF rec.closed THEN [rec |-> rec, raised |-> FALSE]
    ELSE LET W == rec.writer
             bad == {k \in 1..Len(W) : W[k].faulty}
             stop == IF bad = {} THEN Len(W) + 1
                     ELSE CHOOSE k \in bad : \A j \in bad : k <= j
         IN  [rec |-> [closed |-> TRUE,
                       writer |-> [k \in 1..Len(W) |->
                                      IF k < stop
                                      THEN [W[k] EXCEPT !.closed = @ + 1]
                                      ELSE W[k]]],
              raised |-> bad # {}]

(***************************************************************************)
(* Output templates and the build of the pipeline.                         *)
(***************************************************************************)
\* An output after setup_base(callback): no visualizer and no recorder.
\* recorder is the position of the output's recorder in the recorders
\* created by the build, 0 for None.
Output(name, callback) ==
    [name |-> name, callback |-> callback, visualizer |-> FALSE,
     recorder |-> 0]

\* XoutBase.setup_visualize(visualizer, name, recorder)
setup_visualize(xout, recorder) ==
    [xout EXCEPT !.visualizer = TRUE, !.recorder = recorder]

\* OutputConfig(output, callback, visualizer, record_path).  output stands
\* for the component output and is the name its XoutBase gets.
OutputConfig(output, callback, visualizer, record_path) ==
    [kind |-> "OutputConfig", output |-> output, callback |-> callback,
     visualizer |-> visualizer, record_path |-> record_path]

\* SyncConfig(outputs, callback)
SyncConfig(outputs, callback) ==
    [kind |-> "SyncConfig", outputs |-> outputs, cb |-> callback]

\* The source streams of a template.
Sources(t) == IF t.kind = "SyncConfig" THEN t.outputs ELSE <<t.output>>

\* OutputConfig.setup(pipeline, device, names): one output with the user
\* callback, under a name not yet in names; with record_path a
\* VideoRecorder is created and given the output; the visualizer, if any,
\* is set up, and only setup_visualize hands the recorder to the output.
\* acc holds the outputs, names and recorders so far.
OutputConfig_setup(t, acc) ==
    LET clash == In(t.output, acc.names)
        final == IF clash THEN find_new_name(t.output, acc.names)
                 ELSE t.output
        xoutbase == Output(final, t.callback)
        recorder == IF t.record_path THEN Len(acc.recorders) + 1 ELSE 0
    IN  IF clash /\ final = ValueError THEN [acc EXCEPT !.raised = TRUE]
        ELSE [xouts |-> Append(acc.xouts,
                           IF t.visualizer
                           THEN setup_visualize(xoutbase, recorder)
                           ELSE xoutbase),
              names |-> Append(acc.names, final),
              recorders |->
                  IF t.record_path
                  THEN Append(acc.recorders,
                           VideoRecorder_update(VideoRecorder, <<final>>, {}))
                  ELSE acc.recorders,
              raised |-> FALSE]

\* SyncConfig.setup(pipeline, device, _): one output per source, each with
\* self.new_packet as its callback.
SyncConfig_setup(t, acc) ==
    [acc EXCEPT !.xouts =
         @ \o [k \in 1..Len(t.outputs) |-> Output(t.outputs[k], "new_packet")]]

\* The loop of OakCamera.build over the templates; an exception leaving a
\* setup ends it.
RECURSIVE build_loop(_, _)
build_loop(templates, acc) ==
    IF templates = <<>> \/ acc.raised THEN acc
    ELSE build_loop(Tail(templates),
             IF Head(templates).kind = "SyncConfig"
             THEN SyncConfig_setup(Head(templates), acc)
             ELSE OutputConfig_setup(Head(templates), acc))

Built(templates) ==
    build_loop(templates,
        [xouts |-> <<>>, names |-> <<>>, recorders |-> <<>>, raised |-> FALSE])

\* A mutant of build_steps: the outputs are replaced by the ones of the
\* templates whether or not the pipeline was built before.
build_steps_again ==
    LET r == Built(out_templates)
    IN  /\ pipeline_built' = TRUE
        /\ oak_out_streams' = r.xouts
        /\ queue' = [i \in 1..Len(r.xouts) |->
                        IF i <= Len(oak_out_streams) THEN queue[i]
                        ELSE setup_base]
        /\ pushed' = [i \in 1..Len(r.xouts) |->
                         IF i <= Len(oak_out_streams) THEN pushed[i] ELSE <<>>]
        /\ fps' = [i \in 1..Len(r.xouts) |->
                      IF i <= Len(oak_out_streams) THEN fps[i] ELSE 0]
        /\ recorders' = recorders \o r.recorders

\* Ros2Streaming(): self.queue = Queue(30), and the thread running
\* ros_thread(self.queue) is started.  pc is the position of the thread,
\* ok the value of rclpy.ok(), publishers the keys of its dict; created,
\* published and sent list the create_publisher calls, the publish calls
\* and the new_ros_msg calls; pending tells that the last new_ros_msg call
\* is inside queue.put.
RosQueueSize == 30

Ros2Streaming ==
    [queue |-> <<>>, pc |-> "start", ok |-> TRUE, publishers |-> {},
     created |-> <<>>, published |-> <<>>, sent |-> <<>>, pending |-> FALSE]

\* OakCamera(): the attributes __init__ gives the object, and the outputs
\* of its OakDevice.  components and _out_templates are attributes of the
\* class: every OakCamera object reads and appends to the same two lists.
\* templates and components record what the object's build found.
OakCamera ==
    [pipeline_built |-> FALSE, oak_out_streams |-> <<>>,
     templates |-> <<>>, components |-> <<>>]

\* NNComponent(pipeline, model, input, nnType, tracker, ...): detector
\* tells whether the node type parsed from the model is a Yolo or MobileNet
\* detection network (isDetector), tracker whether self.tracker was created.
NNComponent(detector, tracker) ==
    [detector |-> detector, tracker |-> tracker]

NoError == "none"
OnlyDetectors ==
    "Currently, only object detector models (Yolo/MobileNet) can use tracker!"
NotImplementedError == "NotImplementedError"
BuiltOnlyOnce == "Pipeline can be built only once!"

\* NNComponent._update_device_info, lines 163-166, for a component fed by a
\* camera: the exception the call ends with.
_update_device_info(c) ==
    IF c.tracker
    THEN IF ~c.detector THEN OnlyDetectors ELSE NotImplementedError
    ELSE NoError

\* The loop of OakCamera.build over the components: the first exception
\* leaves it.
RECURSIVE update_components(_)
update_components(cs) ==
    IF cs = <<>> THEN NoError
    ELSE IF _update_device_info(Head(cs)) # NoError
         THEN _update_device_info(Head(cs))
         ELSE update_components(Tail(cs))

\* The exception a build() call made now ends with.
build_error ==
    IF pipeline_built THEN BuiltOnlyOnce
    ELSE IF update_components(components) # NoError
         THEN update_components(components)
         ELSE IF Built(out_templates).raised THEN "ValueError"
              ELSE NoError

\* The steps of OakCamera.build() after the test of _pipeline_built: the
\* flag is set, the components are updated, and the output of every
\* template is appended to oak_out_streams.  An exception of a component
\* leaves build() before the loop over the templates.
build_run ==
    LET r == Built(out_templates)
        ok == update_components(components) = NoError
        outs == IF ok THEN oak_out_streams \o r.xouts ELSE oak_out_streams
    IN  /\ pipeline_built' = TRUE
        /\ oak_out_streams' = outs
        /\ queue' = [i \in 1..Len(outs) |->
                        IF i <= Len(oak_out_streams) THEN queue[i]
                        ELSE setup_base]
        /\ pushed' = [i \in 1..Len(outs) |->
                         IF i <= Len(oak_out_streams) THEN pushed[i]
                         ELSE <<>>]
        /\ fps' = [i \in 1..Len(outs) |->
                      IF i <= Len(oak_out_streams) THEN fps[i] ELSE 0]
        /\ recorders' = IF ok THEN recorders \o r.recorders ELSE recorders

\* OakCamera.build(): a second build raises 'Pipeline can be built only
\* once!' and changes nothing; the first one runs the steps.
build_steps ==
    IF pipeline_built
    THEN UNCHANGED <<pipeline_built, oak_out_streams, queue, pushed, fps,
                     recorders>>
    ELSE build_run

\* The entry of builds for a call: whether the pipeline was built before
\* it, whether it ran the build steps, the templates and components it
\* found and the exception it ended with.
Call(name, ran, error) ==
    [call |-> name, built |-> pipeline_built, ran |-> ran,
     templates |-> out_templates, components |-> components,
     error |-> error]

\* An explicit build() call of the application.
build ==
    /\ pc # "exited"
    /\ Len(builds) < MaxCalls
    /\ build_steps
    /\ builds' = Append(builds, Call("build", ~pipeline_built, build_error))
    /\ UNCHANGED <<pc, idx, polled, key, ret, delivered, closes>>
    /\ UNCHANGED rosVars
    /\ UNCHANGED <<out_templates, registrations, components, other>>
    /\ UNCHANGED syncVars
    /\ UNCHANGED nameVars

\* A mutant of show_graph: the pipeline is built without looking at
\* _pipeline_built.
show_graph_rebuilds ==
    /\ pc # "exited"
    /\ Len(builds) < MaxCalls
    /\ build_run
    /\ builds' = Append(builds,
           Call("show_graph", TRUE, update_components(components)))
    /\ UNCHANGED <<pc, idx, polled, key, ret, delivered, closes>>
    /\ UNCHANGED rosVars
    /\ UNCHANGED <<out_templates, registrations, components, other>>
    /\ UNCHANGED syncVars
    /\ UNCHANGED nameVars

\* OakCamera.show_graph(): the pipeline is built unless it was built
\* before, then the graph is shown.
show_graph ==
    /\ pc # "exited"
    /\ Len(builds) < MaxCalls
    /\ build_steps
    /\ builds' = Append(builds,
           Call("show_graph", ~pipeline_built,
                IF pipeline_built THEN NoError ELSE build_error))
    /\ UNCHANGED <<pc, idx, polled, key, ret, delivered, closes>>
    /\ UNCHANGED rosVars
    /\ UNCHANGED <<out_templates, registrations, components, other>>
    /\ UNCHANGED syncVars
    /\ UNCHANGED nameVars

\* OakCamera.start: the pipeline is built unless it was built before, the
\* FPS counters are started, the device callbacks are registered and the
\* loop is entered.  An exception leaving build() leaves start() as well.
start ==
    /\ pc = "init"
    /\ IF pipeline_built
       THEN /\ fps' = [i \in Outputs |-> 0]
            /\ pc' = "idle"
            /\ UNCHANGED <<pipeline_built, oak_out_streams, queue, pushed,
                           recorders>>
       ELSE /\ build_steps
            /\ pc' = IF build_error # NoError THEN "crashed" ELSE "idle"
    /\ builds' = Append(builds,
           Call("start", ~pipeline_built,
                IF pipeline_built THEN NoError ELSE build_error))
    /\ UNCHANGED <<idx, polled, key, ret, delivered, closes>>
    /\ UNCHANGED rosVars
    /\ UNCHANGED <<out_templates, registrations, components, other>>
    /\ UNCHANGED syncVars
    /\ UNCHANGED nameVars

\* OakCamera.__exit__: the device is closed; nothing else is.
exit ==
    /\ pc \in {"init", "idle", "stopped", "crashed"}
    /\ pc' = "exited"
    /\ UNCHANGED <<oak_out_streams, queue, fps, pushed, idx, polled, key, ret>>
    /\ UNCHANGED syncVars
    /\ UNCHANGED delivered
    /\ UNCHANGED nameVars
    /\ UNCHANGED cameraVars
    /\ UNCHANGED recordVars
    /\ UNCHANGED rosVars

(***************************************************************************)
(* Specifications of the engine.                                           *)
(***************************************************************************)
InitEngine(outs) ==
    /\ oak_out_streams = outs
    /\ queue = [i \in 1..Len(outs) |-> setup_base]
    /\ fps = [i \in 1..Len(outs) |-> 0]
    /\ pushed = [i \in 1..Len(outs) |-> <<>>]
    /\ pc = "init"
    /\ idx = 0
    /\ polled = {}
    /\ key = "none"
    /\ ret = "none"
    /\ msgs = EmptyDict
    /\ maxSeen = -1
    /\ lowWaterMark = -1
    /\ received = <<>>
    /\ emitted = <<>>
    /\ emittedAt = <<>>
    /\ evicted = {}
    /\ delivered = <<>>
    /\ setups = <<>>

\* A camera that has built the pipeline of the given templates and has not
\* been started yet.
InitBuilt(templates) ==
    /\ InitEngine(Built(templates).xouts)
    /\ out_templates = templates
    /\ pipeline_built = TRUE
    /\ registrations = <<>>
    /\ components = <<>>
    /\ builds = <<>>
    /\ other = OakCamera
    /\ ros = Ros2Streaming
    /\ recorders = Built(templates).recorders
    /\ closes = <<>>

\* A synced binding on the streams "color" and "nn".
Init ==
    /\ InitBuilt(<<SyncConfig(<<"color", "nn">>, "user")>>)
    /\ names = <<>>

Next ==
    \/ start
    \/ poll
    \/ \E i \in Outputs : checkQueue(i)
    \/ \E i \in Outputs : pc # "init" /\ Producer(i)

Spec == Init /\ [][Next]_vars

\* Two independent single-stream bindings; the sink of the first one raises
\* on every invocation.
InitIsolation ==
    /\ InitBuilt(<<OutputConfig("bad", "raises", FALSE, FALSE),
                   OutputConfig("good", "user", FALSE, FALSE)>>)
    /\ names = <<>>

SpecIsolation == InitIsolation /\ [][Next]_vars

\* One single-stream binding whose producer outruns the dispatch loop.
InitQueue ==
    /\ InitBuilt(<<OutputConfig("depth", "user", FALSE, FALSE)>>)
    /\ names = <<>>

NextQueue ==
    \/ start
    \/ poll
    \/ \E i \in Outputs : checkQueue(i)
    \/ \E i \in Outputs : pc # "init" /\ BurstProducer(i)

SpecQueue == InitQueue /\ [][NextQueue]_vars

(***************************************************************************)
(* The naming part of OutputConfig.setup, and its scenarios.               *)
(***************************************************************************)
\* OutputConfig.setup, lines 56-58: a name already in names is replaced by
\* find_new_name's, and the final name is appended to names.  A ValueError
\* leaves setup before the append.
setup(name) ==
    LET final == IF In(name, names) THEN find_new_name(name, names) ELSE name
    IN  /\ Len(setups) < MaxSetups
        /\ names' = IF final = ValueError THEN names ELSE Append(names, final)
        /\ setups' = Append(setups,
               [kind |-> "OutputConfig", requested |-> name,
                before |-> names, result |-> final])
        /\ UNCHANGED engineVars
        /\ UNCHANGED syncVars
        /\ UNCHANGED delivered
        /\ UNCHANGED cameraVars
        /\ UNCHANGED recordVars
    /\ UNCHANGED rosVars

Depth == <<"d", "e", "p", "t", "h">>

\* The names outputs request.
Requests ==
    { Depth,
      Depth \o <<" ", "2">>,
      Depth \o <<" ", "9">>,
      Depth \o <<" ", "0", "9">>,
      Depth \o <<" ">>,
      Depth \o <<" ", SuperscriptTwo>>,
      <<"9">> }

\* The names lists a resolution can start from: up to MaxUsed distinct names.
UsedLists ==
    UNION { { l \in [1..n -> Requests] :
                \A j, k \in 1..n : l[j] = l[k] => j = k } : n \in 0..MaxUsed }

InitNames ==
    /\ InitEngine(<<>>)
    /\ out_templates = <<>>
    /\ pipeline_built = FALSE
    /\ registrations = <<>>
    /\ components = <<>>
    /\ builds = <<>>
    /\ other = OakCamera
    /\ ros = Ros2Streaming
    /\ recorders = <<>>
    /\ closes = <<>>
    /\ names \in UsedLists

NextNames == \E name \in Requests : setup(name)

SpecNames == InitNames /\ [][NextNames]_vars

(***************************************************************************)
(* Scenarios of the camera life cycle.                                     *)
(***************************************************************************)
Color == <<"c", "o", "l", "o", "r">>

\* SyncConfig.setup(pipeline, device, _) and RecordConfig.setup(pipeline,
\* device, _): every output is set up under the name it has; the names
\* list is the parameter _, which neither of them reads or appends to.
setup_unnamed(kind, outputs) ==
    /\ Len(setups) + Len(outputs) <= MaxSetups
    /\ setups' = setups \o
           [k \in 1..Len(outputs) |->
               [kind |-> kind, requested |-> outputs[k], before |-> names,
                result |-> outputs[k]]]
    /\ UNCHANGED names
    /\ UNCHANGED engineVars
    /\ UNCHANGED syncVars
    /\ UNCHANGED delivered
    /\ UNCHANGED cameraVars
    /\ UNCHANGED recordVars
    /\ UNCHANGED rosVars

\* SyncConfig(outputs, callback).setup(pipeline, device, names)
sync_setup(outputs) ==
    /\ outputs # <<>>
    /\ setup_unnamed("SyncConfig", outputs)

\* RecordConfig(outputs, rec).setup(pipeline, device, names)
record_setup(outputs) ==
    /\ outputs # <<>>
    /\ setup_unnamed("RecordConfig", outputs)

\* The output lists of a synced or recorded registration.
OutputLists == {<<Depth>>, <<Color>>, <<Depth, Color>>, <<Color, Depth>>}

\* Templates of the three kinds are set up one after the other with one
\* names list, which starts empty as in OakCamera.build.
InitSetups ==
    /\ InitEngine(<<>>)
    /\ out_templates = <<>>
    /\ pipeline_built = FALSE
    /\ registrations = <<>>
    /\ components = <<>>
    /\ builds = <<>>
    /\ other = OakCamera
    /\ ros = Ros2Streaming
    /\ recorders = <<>>
    /\ closes = <<>>
    /\ names = <<>>

NextSetups ==
    \/ \E name \in {Depth, Color} : setup(name)
    \/ \E outputs \in OutputLists : sync_setup(outputs)
    \/ \E outputs \in OutputLists : record_setup(outputs)

SpecSetups == InitSetups /\ [][NextSetups]_vars

\* A device stream delivering up to MaxFrames consecutive frames while the
\* device is open.
FrameProducer(i) ==
    /\ pc \in {"idle", "polling", "stopped", "crashed"}
    /\ Len(pushed[i]) < MaxFrames
    /\ newMsg(i, Len(pushed[i]))

\* A camera with the given templates registered and nothing built.
InitCamera(templates) ==
    /\ InitEngine(<<>>)
    /\ out_templates = templates
    /\ pipeline_built = FALSE
    /\ registrations = <<>>
    /\ components = <<>>
    /\ builds = <<>>
    /\ other = OakCamera
    /\ ros = Ros2Streaming
    /\ recorders = <<>>
    /\ closes = <<>>
    /\ names = <<>>

\* Two recorded outputs, the second one visualized as well; the camera is
\* started, polled and left.
InitTeardown ==
    InitCamera(<<OutputConfig(Depth, "user", FALSE, TRUE),
                 OutputConfig(Color, "none", TRUE, TRUE)>>)

NextTeardown ==
    \/ start
    \/ poll
    \/ \E i \in Outputs : checkQueue(i)
    \/ \E i \in Outputs : FrameProducer(i)
    \/ exit

SpecTeardown == InitTeardown /\ [][NextTeardown]_vars

\* A None placed in the queue of output i while the device is open: the
\* entry the test of checkQueue provides for.
NoneEntry(i) ==
    /\ pc \in {"idle", "polling", "stopped", "crashed"}
    /\ Len(pushed[i]) < MaxFrames
    /\ pushed' = [pushed EXCEPT ![i] = Append(@, None)]
    /\ queue' = [queue EXCEPT ![i] = put_nowait(@, None)]
    /\ UNCHANGED <<oak_out_streams, fps, pc, idx, polled, key, ret>>
    /\ UNCHANGED syncVars
    /\ UNCHANGED delivered
    /\ UNCHANGED nameVars
    /\ UNCHANGED cameraVars
    /\ UNCHANGED recordVars
    /\ UNCHANGED rosVars

\* One output with a user callback and one with a visualizer, built and
\* polled while frames and None entries arrive.
InitDispatch ==
    /\ InitBuilt(<<OutputConfig(Depth, "user", FALSE, FALSE),
                   OutputConfig(Color, "none", TRUE, FALSE)>>)
    /\ names = <<>>

NextDispatch ==
    \/ start
    \/ poll
    \/ \E i \in Outputs : checkQueue(i)
    \/ \E i \in Outputs : FrameProducer(i)
    \/ \E i \in Outputs : NoneEntry(i)

SpecDispatch == InitDispatch /\ [][NextDispatch]_vars

\* The output argument of callback() and visualize(): a component output,
\* or a list of them.
Single(output) == [isList |-> FALSE, elems |-> <<output>>]
ListOf(outputs) == [isList |-> TRUE, elems |-> outputs]

\* OakCamera._callback(output, callback, vis): for a list, itself on every
\* element and return; otherwise one OutputConfig(output, callback, vis) is
\* appended to _out_templates.  The value is the templates appended.
_callback(output, cb, vis) ==
    [k \in 1..Len(output.elems) |->
        OutputConfig(output.elems[k], cb, vis, FALSE)]

\* One registration call of the application, at any time of the camera's
\* life.
register(call, output, cb, vis) ==
    /\ out_templates' = out_templates \o _callback(output, cb, vis)
    /\ registrations' = Append(registrations,
           [call |-> call, output |-> output, started |-> pc # "init",
            built |-> pipeline_built, raised |-> FALSE,
            before |-> out_templates, camera |-> "A"])
    /\ UNCHANGED <<pipeline_built, components, builds, other>>
    /\ UNCHANGED engineVars
    /\ UNCHANGED syncVars
    /\ UNCHANGED delivered
    /\ UNCHANGED nameVars
    /\ UNCHANGED recordVars
    /\ UNCHANGED rosVars

\* OakCamera.callback(output, callback)
callback(output) ==
    /\ Len(registrations) < MaxRegistrations
    /\ Len(out_templates) + Len(output.elems) <= MaxTemplates
    /\ register("callback", output, "user", FALSE)

\* OakCamera.visualize(output, scale, fps, callback=None)
visualize(output) ==
    /\ Len(registrations) < MaxRegistrations
    /\ Len(out_templates) + Len(output.elems) <= MaxTemplates
    /\ register("visualize", output, "none", TRUE)

\* The output arguments the application registers with.
Registrable ==
    {Single(Depth), Single(Color), ListOf(<<>>), ListOf(<<Depth, Color>>)}

\* A device stream that delivers one frame while the device is open.
FirstFrame(i) ==
    /\ pc \in {"idle", "polling", "stopped", "crashed"}
    /\ pushed[i] = <<>>
    /\ newMsg(i, 0)

InitRegistration == InitCamera(<<>>)

NextRegistration ==
    \/ \E output \in Registrable : callback(output)
    \/ \E output \in Registrable : visualize(output)
    \/ build
    \/ start
    \/ poll
    \/ \E i \in Outputs : checkQueue(i)
    \/ \E i \in Outputs : FirstFrame(i)
    \/ exit

SpecRegistration == InitRegistration /\ [][NextRegistration]_vars

\* OakCamera.create_nn(model, input, type, tracker): the component is
\* constructed and appended to components.
create_nn(detector, tracker) ==
    /\ pc # "exited"
    /\ Len(components) < MaxComponents
    /\ components' = Append(components, NNComponent(detector, tracker))
    /\ UNCHANGED <<out_templates, pipeline_built, registrations, builds,
                   other>>
    /\ UNCHANGED engineVars
    /\ UNCHANGED syncVars
    /\ UNCHANGED delivered
    /\ UNCHANGED nameVars
    /\ UNCHANGED recordVars
    /\ UNCHANGED rosVars

\* The application creates NN components, with and without a tracker, on
\* detector and other models, and builds or starts the camera.
InitTracker == InitCamera(<<>>)

NextTracker ==
    \/ \E detector \in BOOLEAN, tracker \in BOOLEAN :
          create_nn(detector, tracker)
    \/ build
    \/ start
    \/ exit

SpecTracker == InitTracker /\ [][NextTracker]_vars

\* callback(output, callback) on the second camera: the templates are
\* appended to the list of the class.
other_callback(output) ==
    /\ Len(registrations) < MaxRegistrations
    /\ Len(out_templates) + Len(output.elems) <= MaxTemplates
    /\ out_templates' = out_templates \o _callback(output, "user", FALSE)
    /\ registrations' = Append(registrations,
           [call |-> "callback", output |-> output,
            started |-> other.pipeline_built, built |-> other.pipeline_built,
            raised |-> FALSE, before |-> out_templates, camera |-> "B"])
    /\ UNCHANGED <<pipeline_built, components, builds, other>>
    /\ UNCHANGED engineVars
    /\ UNCHANGED syncVars
    /\ UNCHANGED delivered
    /\ UNCHANGED nameVars
    /\ UNCHANGED recordVars
    /\ UNCHANGED rosVars

\* The first build() of the second camera: it updates the components and
\* sets up the templates of the class lists, and appends the outputs to the
\* oak_out_streams of its own OakDevice.
other_build ==
    /\ ~other.pipeline_built
    /\ other' =
           [pipeline_built |-> TRUE,
            oak_out_streams |->
                IF update_components(components) = NoError
                THEN Built(out_templates).xouts ELSE <<>>,
            templates |-> out_templates,
            components |-> components]
    /\ UNCHANGED <<out_templates, pipeline_built, registrations, components,
                   builds>>
    /\ UNCHANGED engineVars
    /\ UNCHANGED syncVars
    /\ UNCHANGED delivered
    /\ UNCHANGED nameVars
    /\ UNCHANGED recordVars
    /\ UNCHANGED rosVars

\* Two cameras of one process: outputs are registered on both, NN
\* components are created on the first, and both are built.
InitCameras == InitCamera(<<>>)

NextCameras ==
    \/ \E output \in Registrable : callback(output)
    \/ \E output \in Registrable : other_callback(output)
    \/ \E detector \in BOOLEAN : create_nn(detector, FALSE)
    \/ build
    \/ other_build

SpecCameras == InitCameras /\ [][NextCameras]_vars

\* The ROS steps leave the camera alone.
camera_unchanged ==
    /\ UNCHANGED engineVars
    /\ UNCHANGED syncVars
    /\ UNCHANGED delivered
    /\ UNCHANGED nameVars
    /\ UNCHANGED cameraVars
    /\ UNCHANGED recordVars

\* ros_thread, lines 11-14: rclpy.init(), the node and the empty dict of
\* publishers.
ros_thread_init ==
    /\ ros.pc = "start"
    /\ ros' = [ros EXCEPT !.pc = "test"]
    /\ camera_unchanged

\* ros_thread, line 16: while rclpy.ok()
ros_thread_test ==
    /\ ros.pc = "test"
    /\ ros' = [ros EXCEPT !.pc = IF ros.ok THEN "get" ELSE "done"]
    /\ camera_unchanged

\* ros_thread, lines 17-23: queue.get(block=True) waits for a message;
\* its publisher is created unless the dict has one for the topic, the
\* message is published, and the node spins once.
ros_thread_body ==
    /\ ros.pc = "get"
    /\ ros.queue # <<>>
    /\ LET msg == Head(ros.queue)
       IN  ros' = [ros EXCEPT
                      !.queue = Tail(@),
                      !.publishers = @ \cup {msg.topic},
                      !.created = IF msg.topic \in ros.publishers THEN @
                                  ELSE Append(@, msg.topic),
                      !.published = Append(@, msg),
                      !.pc = "test"]
    /\ camera_unchanged

\* rclpy is shut down: rclpy.ok() is False from now on.
rclpy_shutdown ==
    /\ ros.ok
    /\ ros' = [ros EXCEPT !.ok = FALSE]
    /\ camera_unchanged

\* Ros2Streaming.new_ros_msg(topic, ros_msg) is called, and reaches
\* self.queue.put({topic: ros_msg}).
new_ros_msg(topic) ==
    /\ ~ros.pending
    /\ Len(ros.sent) < MaxRosMsgs
    /\ topic = "b" =>
           Cardinality({k \in 1..Len(ros.sent) : ros.sent[k].topic = "b"})
               < MaxSecondTopic
    /\ ros' = [ros EXCEPT
                  !.sent = Append(@, [topic |-> topic, id |-> Len(@) + 1]),
                  !.pending = TRUE]
    /\ camera_unchanged

\* The blocking put of new_ros_msg gets a free slot, and the call returns.
queue_put ==
    /\ ros.pending
    /\ Len(ros.queue) < RosQueueSize
    /\ ros' = [ros EXCEPT
                  !.queue = Append(@, ros.sent[Len(ros.sent)]),
                  !.pending = FALSE]
    /\ camera_unchanged

\* A Ros2Streaming object is fed messages on two topics while its thread
\* publishes them; rclpy may be shut down at any time.
InitRos == InitCamera(<<>>)

NextRos ==
    \/ ros_thread_init
    \/ ros_thread_test
    \/ ros_thread_body
    \/ rclpy_shutdown
    \/ \E topic \in {"a", "b"} : new_ros_msg(topic)
    \/ queue_put

SpecRos == InitRos /\ [][NextRos]_vars

\* The application registers outputs and calls build(), start() and
\* show_graph() in any order.
InitBuild == InitCamera(<<>>)

NextBuild ==
    \/ \E output \in Registrable : callback(output)
    \/ build
    \/ start
    \/ show_graph
    \/ exit

SpecBuild == InitBuild /\ [][NextBuild]_vars

(***************************************************************************)
(* Scenario of one VideoRecorder: streams are added, frames written, and   *)
(* the recorder is closed, possibly more than once.                        *)
(***************************************************************************)
\* recorder.update(path, device, xouts)
update(r) ==
    /\ ~recorders[r].closed
    /\ \E xouts \in {<<Depth>>, <<Color>>, <<Depth, Color>>, <<Color, Depth>>},
          bad \in SUBSET {Depth, Color} :
          /\ \A k \in 1..Len(xouts) :
                \A j \in 1..Len(recorders[r].writer) :
                    recorders[r].writer[j].name # xouts[k]
          /\ recorders' = [recorders EXCEPT ![r] =
                               VideoRecorder_update(@, xouts, bad)]
    /\ UNCHANGED closes
    /\ UNCHANGED rosVars
    /\ UNCHANGED engineVars
    /\ UNCHANGED syncVars
    /\ UNCHANGED delivered
    /\ UNCHANGED nameVars
    /\ UNCHANGED cameraVars

\* recorder.write(name, frame) on an open recorder
write(r, k) ==
    /\ ~recorders[r].closed
    /\ recorders[r].writer[k].frames < MaxFrames
    /\ recorders' = [recorders EXCEPT ![r].writer[k].frames = @ + 1]
    /\ UNCHANGED closes
    /\ UNCHANGED rosVars
    /\ UNCHANGED engineVars
    /\ UNCHANGED syncVars
    /\ UNCHANGED delivered
    /\ UNCHANGED nameVars
    /\ UNCHANGED cameraVars

\* recorder.close()
close(r) ==
    /\ Len(closes) < MaxCloses
    /\ recorders' = [recorders EXCEPT ![r] = VideoRecorder_close(@).rec]
    /\ closes' = Append(closes,
           [recorder |-> r, raised |-> VideoRecorder_close(recorders[r]).raised])
    /\ UNCHANGED rosVars
    /\ UNCHANGED engineVars
    /\ UNCHANGED syncVars
    /\ UNCHANGED delivered
    /\ UNCHANGED nameVars
    /\ UNCHANGED cameraVars

InitRecorder ==
    /\ InitEngine(<<>>)
    /\ out_templates = <<>>
    /\ pipeline_built = FALSE
    /\ registrations = <<>>
    /\ components = <<>>
    /\ builds = <<>>
    /\ other = OakCamera
    /\ ros = Ros2Streaming
    /\ recorders = <<VideoRecorder>>
    /\ closes = <<>>
    /\ names = <<>>

NextRecorder ==
    \/ update(1)
    \/ \E k \in 1..Len(recorders[1].writer) : write(1, k)
    \/ close(1)

SpecRecorder == InitRecorder /\ [][NextRecorder]_vars

(***************************************************************************)
(* Properties of the sequence-number join (specification Spec).            *)
(***************************************************************************)
\* Names of the streams the synced binding requires.
StreamNames ==
    {oak_out_streams[i].name :
        i \in {j \in Outputs : oak_out_streams[j].callback = "new_packet"}}

\* Positions in received of the packets of stream s with sequence number n.
ReceivedOn(s, n) ==
    {k \in 1..Len(received) : received[k].name = s /\ received[k].seq = n}

\* Sequence number of a bundle.
BundleSeq(b) == b[CHOOSE s \in DOMAIN b : TRUE].seq

\* Positions in emitted of the bundles for sequence number n.
BundlesFor(n) == {k \in 1..Len(emitted) : BundleSeq(emitted[k]) = n}

\* Every required stream delivered exactly one packet for n.
OncePerStream(n) == \A s \in StreamNames : Cardinality(ReceivedOn(s, n)) = 1

\* Exactly one bundle was emitted for n, and it holds the packet every
\* required stream delivered for n.
EmittedOnceComplete(n) ==
    /\ Cardinality(BundlesFor(n)) = 1
    /\ \A k \in BundlesFor(n) :
          /\ DOMAIN emitted[k] = StreamNames
          /\ \A s \in StreamNames :
                \E j \in ReceivedOn(s, n) : emitted[k][s] = received[j]

\* C1 as stated: a sequence number that received exactly one packet on
\* every required stream has exactly one emitted bundle, holding all N
\* packets.
C1_ExactlyOneBundle ==
    \A n \in 0..MaxSeq : OncePerStream(n) => EmittedOnceComplete(n)

\* C1 amended: a sequence number that received exactly one packet on every
\* required stream, and whose group was not discarded by eviction meanwhile,
\* has exactly one emitted bundle, holding all N packets; it is not emitted
\* twice.
C1_ExactlyOneBundleUnlessEvicted ==
    \A n \in 0..MaxSeq :
        (OncePerStream(n) /\ n \notin evicted) => EmittedOnceComplete(n)

\* Two sequence numbers completed, the second one after the streams had
\* been received in the opposite order.
C1_Witness ==
    /\ Len(received) = 4
    /\ received[1].name = "nn" /\ received[2].name = "color"
    /\ received[3].name = "color" /\ received[4].name = "nn"
    /\ \E n \in 0..MaxSeq, m \in 0..MaxSeq :
          /\ n < m
          /\ OncePerStream(n) /\ OncePerStream(m)
          /\ EmittedOnceComplete(n) /\ EmittedOnceComplete(m)

\* C2: every emitted bundle holds exactly one packet of each required
\* stream, all of its sequence number and all received; a sequence number
\* some required stream has delivered no packet for has no emitted bundle.
C2_OnlyCompleteGroups ==
    /\ \A k \in 1..Len(emitted) :
          /\ DOMAIN emitted[k] = StreamNames
          /\ \A s \in StreamNames :
                /\ emitted[k][s].name = s
                /\ emitted[k][s].seq = BundleSeq(emitted[k])
                /\ \E j \in 1..Len(received) : received[j] = emitted[k][s]
    /\ \A n \in 0..MaxSeq :
          (\E s \in StreamNames : ReceivedOn(s, n) = {}) => BundlesFor(n) = {}

\* A sequence number with a packet on "color" and none on "nn" stays
\* unemitted while another sequence number is emitted.
C2_Witness ==
    /\ emitted # <<>>
    /\ \E n \in 0..MaxSeq :
          /\ ReceivedOn("color", n) # {}
          /\ ReceivedOn("nn", n) = {}
          /\ BundlesFor(n) = {}

\* The packets of the end-to-end scenario.
Pkt(s, n, k) == [name |-> s, seq |-> n, id |-> k]
ColorFeed == <<Pkt("color", 0, 1), Pkt("color", 1, 2), Pkt("color", 2, 3)>>
NnFeed == <<Pkt("nn", 1, 1), Pkt("nn", 2, 2)>>
ScenarioBundles ==
    << [color |-> ColorFeed[2], nn |-> NnFeed[1]],
       [color |-> ColorFeed[3], nn |-> NnFeed[2]] >>

IsPrefix(a, b) == Len(a) <= Len(b) /\ a = SubSeq(b, 1, Len(a))

\* The producers have fed (a prefix of) the scenario: "color" 0,1,2 and
\* "nn" 1,2.
InScenario == IsPrefix(pushed[1], ColorFeed) /\ IsPrefix(pushed[2], NnFeed)

\* C6: in the scenario the emitted bundles are always a prefix of <<bundle
\* of 1, bundle of 2>>, each with both streams' packets, and once all five
\* packets went through the join both bundles have been emitted, in that
\* order; sequence number 0 is never emitted.
C6_EndToEnd ==
    InScenario =>
        /\ IsPrefix(emitted, ScenarioBundles)
        /\ BundlesFor(0) = {}
        /\ Len(received) = 5 => emitted = ScenarioBundles

\* The whole scenario went through the join, all of "color" first.
C6_Witness ==
    /\ InScenario
    /\ Len(received) = 5
    /\ received[1].name = "color" /\ received[2].name = "color"
    /\ received[3].name = "color"
    /\ Len(emitted) = 2

\* C9: while "nn" has delivered no packet with sequence number 0, sequence
\* number 0 is not emitted; once the highest sequence number seen is more
\* than Horizon ahead of 0 the group of 0 is gone; and the synchronizer never
\* holds more than Horizon + 1 incomplete groups.
C9_EvictionBound ==
    /\ ReceivedOn("nn", 0) = {} => BundlesFor(0) = {}
    /\ maxSeen > Horizon => 0 \notin DOMAIN msgs
    /\ Cardinality(DOMAIN msgs) <= Horizon + 1
    /\ \A n \in DOMAIN msgs : maxSeen - n <= Horizon

\* "color" delivered 0 and went on past the horizon, "nn" never delivered 0:
\* the group of 0 was discarded.
C9_Witness ==
    /\ ReceivedOn("color", 0) # {}
    /\ ReceivedOn("nn", 0) = {}
    /\ 0 \in evicted
    /\ 0 \notin DOMAIN msgs
    /\ \A i \in Outputs : Len(pushed[i]) = MaxPush /\ queue[i] = <<>>

\* C10: with every stream delivering non-decreasing sequence numbers, the
\* bundles are emitted in non-decreasing order of sequence number, whatever
\* the interleaving of the streams.
C10_EmissionOrder ==
    \A j, k \in 1..Len(emitted) :
        j < k => BundleSeq(emitted[j]) <= BundleSeq(emitted[k])

\* Two bundles of different sequence numbers were emitted after "nn" ran
\* ahead of "color".
C10_Witness ==
    /\ Len(emitted) >= 2
    /\ BundleSeq(emitted[1]) < BundleSeq(emitted[2])
    /\ Len(received) >= 2
    /\ received[1].name = "nn" /\ received[2].name = "nn"

(***************************************************************************)
(* Properties of the dispatch loop (specification SpecIsolation).          *)
(***************************************************************************)
\* C3: a poll cycle is never cut short and the loop never ends by a sink's
\* error: outside a running cycle, the last cycle has checked every output.
C3_SinkIsolation ==
    /\ pc # "crashed"
    /\ pc # "polling" => polled \in {{}, Outputs}

(***************************************************************************)
(* Properties of the queue (specification SpecQueue).                      *)
(***************************************************************************)
\* C4: a queue never holds more than 10 packets, and as long as nothing was
\* popped it holds the first packets pushed, in order: a packet pushed onto
\* a full queue is the one dropped.
C4_QueueOverflow ==
    \A i \in Outputs :
        /\ Len(queue[i]) <= 10
        /\ fps[i] = 0 =>
              queue[i] = SubSeq(pushed[i], 1,
                            IF Len(pushed[i]) < 10 THEN Len(pushed[i]) ELSE 10)

\* Eleven packets were pushed and none popped.
C4_Witness ==
    /\ Len(pushed[1]) = 11
    /\ fps[1] = 0
    /\ Len(queue[1]) = 10
    /\ queue[1][1].seq = 0 /\ queue[1][10].seq = 9

\* C5: whatever the dispatch loop does, the next push of a producer can be
\* taken at once.
C5_PushNeverBlocks ==
    \A i \in Outputs :
        (pc # "init" /\ Len(pushed[i]) < MaxBurst) =>
            ENABLED newMsg(i, Len(pushed[i]))

\* The loop stopped before it popped anything, and the producer went on to
\* push onto the full queue.
C5_Witness ==
    /\ pc = "stopped"
    /\ fps[1] = 0
    /\ Len(queue[1]) = 10
    /\ Len(pushed[1]) > 10

(***************************************************************************)
(* Properties of the name resolver (specification SpecNames).              *)
(***************************************************************************)
\* The setups so far started from an empty names list and all requested
\* "depth".
AllDepth ==
    /\ setups # <<>>
    /\ setups[1].before = <<>>
    /\ \A k \in 1..Len(setups) : setups[k].requested = Depth

\* C7: outputs that all request "depth" are named "depth", "depth 2" and
\* "depth 3", in this order.
C7_NameCollision ==
    AllDepth =>
        /\ setups[1].result = Depth
        /\ Len(setups) >= 2 => setups[2].result = Depth \o <<" ", "2">>
        /\ Len(setups) >= 3 => setups[3].result = Depth \o <<" ", "3">>

\* Three outputs requested "depth".
C7_Witness == AllDepth /\ Len(setups) = 3

\* The name after k rewrites.
RECURSIVE Rewritten(_, _)
Rewritten(name, k) == IF k = 0 THEN name ELSE rewrite(Rewritten(name, k - 1))

\* C8: every setup yields a name; the requested one when it is not in the
\* names list, otherwise the first of its rewrites that is not in the list;
\* the name yielded is never in the list.
C8_NameResolution ==
    \A k \in 1..Len(setups) :
        LET e == setups[k]
        IN  /\ e.result # ValueError
            /\ ~In(e.requested, e.before) => e.result = e.requested
            /\ In(e.requested, e.before) =>
                  \E m \in 1..(Len(e.before) + 1) :
                      /\ e.result = Rewritten(e.requested, m)
                      /\ \A j \in 1..(m - 1) :
                            In(Rewritten(e.requested, j), e.before)
            /\ ~In(e.result, e.before)

(***************************************************************************)
(* Properties of the teardown (specification SpecTeardown).                *)
(***************************************************************************)
\* Every writer of the recorder was closed.
AllWritersClosed(rec) ==
    \A k \in 1..Len(rec.writer) : rec.writer[k].closed >= 1

\* C11: once the camera context has been left, no queue is checked any
\* more, and every recorder created for a binding is closed, with all its
\* writers.
C11_RecordersClosedOnExit ==
    pc = "exited" =>
        /\ \A i \in Outputs : ~ENABLED checkQueue(i)
        /\ \A r \in 1..Len(recorders) :
              recorders[r].closed /\ AllWritersClosed(recorders[r])

(***************************************************************************)
(* Properties of VideoRecorder.close (specification SpecRecorder).         *)
(***************************************************************************)
\* C12: no close() call lets a writer's failure out, and after a close()
\* call every writer that can be closed has been closed, also when another
\* writer of the recorder failed to close.
C12_CloseIsolatesFailures ==
    \A c \in 1..Len(closes) :
        /\ ~closes[c].raised
        /\ \A k \in 1..Len(recorders[closes[c].recorder].writer) :
              LET w == recorders[closes[c].recorder].writer[k]
              IN  ~w.faulty => w.closed >= 1

(***************************************************************************)
(* Properties of OakCamera.poll and the loop of start (specification       *)
(* SpecIsolation).                                                         *)
(***************************************************************************)
\* C13: a poll call returns False exactly when it read the quit key, and
\* then it has checked no output; a poll call that read another key checks
\* every output and returns True; and the loop of start(blocking=True) ends
\* only by a poll call that returned False.
C13_PollContract ==
    /\ ret = "False" <=> key = "q"
    /\ key = "q" => polled = {} /\ pc = "stopped"
    /\ (key = "other" /\ pc # "polling") => (ret = "True" /\ polled = Outputs)
    /\ pc \notin {"init", "idle", "polling"} => ret = "False"

(***************************************************************************)
(* Thread confinement (specification Spec).  The producer threads run      *)
(* newMsg; start, poll and checkQueue run on the thread of the loop.       *)
(***************************************************************************)
\* The state of the sinks: the join and what the callbacks were handed.
sinkVars == <<msgs, maxSeen, lowWaterMark, received, emitted, emittedAt,
              evicted, delivered>>

C15_FifoPerQueue ==
    \A i \in Outputs :
        LET out == {k \in 1..Len(delivered) : delivered[k].out = i}
        IN  /\ \A j, k \in out :
                  j < k => delivered[j].packet.id < delivered[k].packet.id
            /\ \A k \in out : \A j \in 1..Len(queue[i]) :
                  delivered[k].packet.id < queue[i][j].id
            /\ \A j, k \in 1..Len(queue[i]) :
                  j < k => queue[i][j].id < queue[i][k].id

\* Packets were dispatched while later ones were queued behind them, and
\* one packet had been dropped at the full queue in between.
C15_Witness ==
    /\ Len(delivered) >= 3
    /\ Len(queue[1]) >= 2
    /\ Len(pushed[1]) > Len(delivered) + Len(queue[1])

(***************************************************************************)
(* Properties of the registration calls (specification SpecRegistration).  *)
(***************************************************************************)
\* C16: once start() has been called, no step changes the outputs the loop
\* polls, whatever is registered afterwards.
C16_BindingsFixedOnceStarted ==
    [][pc # "init" => oak_out_streams' = oak_out_streams]_vars

\* An output was registered after start(), and the loop is polling the
\* outputs it was started with.
C16_Witness ==
    /\ pc = "polling"
    /\ oak_out_streams # <<>>
    /\ Len(out_templates) > Len(oak_out_streams)
    /\ \E k \in 1..Len(registrations) :
          registrations[k].started /\ registrations[k].output.elems # <<>>

\* C17: a registration call with no source stream ends with an error, and
\* no registration call changes the templates registered before it.
C17_EmptyRegistrationFails ==
    \A k \in 1..Len(registrations) :
        /\ registrations[k].output.elems = <<>> => registrations[k].raised
        /\ IsPrefix(registrations[k].before, out_templates)

\* The outputs built for registration k, which was made before the build.
OutputsOf(k) ==
    (Len(registrations[k].before) + 1) ..
        (Len(registrations[k].before) + Len(registrations[k].output.elems))

\* The packets the callback of output i was handed, in order.
RECURSIVE HandedTo(_, _)
HandedTo(i, log) ==
    IF log = <<>> THEN <<>>
    ELSE IF Head(log).out = i
         THEN <<Head(log).packet>> \o HandedTo(i, Tail(log))
         ELSE HandedTo(i, Tail(log))

\* C18: a registration with more than one source stream has its outputs
\* routed through a synchronizer, and a registration with one source stream
\* has not: each packet taken from its queue is handed to the sink as it
\* is.
C18_SynchronizerIffMultiStream ==
    \A k \in 1..Len(registrations) :
        (pipeline_built /\ ~registrations[k].built /\ OutputsOf(k) \subseteq Outputs)
        => \A i \in OutputsOf(k) :
              /\ oak_out_streams[i].callback = "new_packet"
                     <=> Len(registrations[k].output.elems) > 1
              /\ Len(registrations[k].output.elems) = 1 =>
                     Len(HandedTo(i, delivered)) = fps[i]

(***************************************************************************)
(* Duplicate packets in the join (specification Spec).                     *)
(***************************************************************************)
\* Positions in received, up to the emission of bundle k, of the packets of
\* stream s with the sequence number of bundle k.
ReceivedBefore(k, s) ==
    {j \in 1..emittedAt[k] :
        received[j].name = s /\ received[j].seq = BundleSeq(emitted[k])}

\* C19: every emitted bundle holds exactly one packet per required stream,
\* and for each stream it is the latest packet of the bundle's sequence
\* number that the stream had delivered when the bundle was emitted: a
\* later packet has replaced an earlier one of the same sequence number.
C19_LastWriteWins ==
    \A k \in 1..Len(emitted) :
        /\ DOMAIN emitted[k] = StreamNames
        /\ \A s \in StreamNames :
              /\ ReceivedBefore(k, s) # {}
              /\ emitted[k][s] =
                    received[CHOOSE j \in ReceivedBefore(k, s) :
                                \A i \in ReceivedBefore(k, s) : i <= j]

\* "color" delivered two packets for one sequence number before "nn"
\* completed the group, and the bundle holds the second of them.
C19_Witness ==
    \E k \in 1..Len(emitted) :
        /\ \A j \in 1..(k - 1) : BundleSeq(emitted[j]) # BundleSeq(emitted[k])
        /\ BundleSeq(emitted[k]) \notin evicted
        /\ Cardinality(ReceivedBefore(k, "color")) = 2
        /\ received[emittedAt[k]].name = "nn"
        /\ \A j \in ReceivedBefore(k, "color") :
              emitted[k]["color"].id >= received[j].id

(***************************************************************************)
(* The FPS counter (specification SpecIsolation).                          *)
(***************************************************************************)
\* C20: the FPS counter of an output has been advanced once for every
\* packet its sink was handed and took without an error, and for nothing
\* else: not for an empty queue and not for a packet whose sink raised.
C20_FpsCountsDispatched ==
    \A i \in Outputs : fps[i] = Len(HandedTo(i, delivered))

(***************************************************************************)
(* Sinks and recorders of the built outputs (specification SpecTeardown).  *)
(***************************************************************************)
\* C21: every packet taken from an output's queue went down exactly one
\* sink path, the visualize path when the output has a visualizer and the
\* user callback otherwise; and every recorder created from a record_path
\* is attached to the output it was created for.
C21_OneSinkAndRecorderAttached ==
    /\ \A i \in Outputs :
          Len(HandedTo(i, delivered)) = Len(pushed[i]) - Len(queue[i])
    /\ \A d \in 1..Len(delivered) :
          delivered[d].sink =
              IF oak_out_streams[delivered[d].out].visualizer
              THEN "visualize" ELSE "callback"
    /\ \A r \in 1..Len(recorders) :
          \E i \in Outputs :
              /\ oak_out_streams[i].recorder = r
              /\ \E k \in 1..Len(recorders[r].writer) :
                    recorders[r].writer[k].name = oak_out_streams[i].name

(***************************************************************************)
(* Properties of one checkQueue call (specification SpecDispatch).         *)
(***************************************************************************)
\* C22: a checkQueue call on an empty queue does not wait for a producer
\* (it can always take its step), and its step invokes no sink, leaves the
\* FPS counters alone and leaves the queues as they are.
C22_EmptyPopReturns ==
    \A i \in Outputs :
        (pc = "polling" /\ idx = i /\ queue[i] = <<>>) =>
            /\ ENABLED checkQueue(i)
            /\ ~ENABLED (/\ checkQueue(i)
                         /\ \/ queue' # queue
                            \/ fps' # fps
                            \/ delivered' # delivered
                            \/ received' # received
                            \/ emitted' # emitted)

\* The loop has checked an empty queue and gone on, with nothing handed to
\* any sink, while the other queue holds a frame.
C22_Witness ==
    /\ pc = "polling"
    /\ idx = 2
    /\ 1 \in polled
    /\ pushed[1] = <<>>
    /\ queue[2] # <<>>
    /\ delivered = <<>>
    /\ fps[1] = 0

\* The entries of output i that have left its queue, in order.
Taken(i) == SubSeq(pushed[i], 1, Len(pushed[i]) - Len(queue[i]))

\* C27: a checkQueue call removes at most one entry from its queue and
\* hands at most one packet to a sink; no packet is handed to a sink
\* twice; and a None entry leaves the queue without a sink being invoked:
\* the sinks have been handed the packets taken, and nothing else.
C27_AtMostOnceDispatch ==
    /\ \A i \in Outputs :
          ~ENABLED (/\ checkQueue(i)
                    /\ \/ Len(queue'[i]) < Len(queue[i]) - 1
                       \/ Len(delivered') > Len(delivered) + 1
                       \/ \E j \in Outputs : j # i /\ queue'[j] # queue[j])
    /\ \A a, b \in 1..Len(delivered) :
          (delivered[a].out = delivered[b].out
              /\ delivered[a].packet = delivered[b].packet) => a = b
    /\ \A d \in 1..Len(delivered) : delivered[d].packet # None
    /\ \A i \in Outputs :
          Len(HandedTo(i, delivered)) =
              Cardinality({k \in 1..Len(Taken(i)) : Taken(i)[k] # None})

\* A None entry and a frame have both left the queue of the first output,
\* and its callback has been handed the frame.
C27_Witness ==
    /\ queue[1] = <<>>
    /\ Len(pushed[1]) = 2
    /\ pushed[1][1] = None
    /\ pushed[1][2] # None
    /\ HandedTo(1, delivered) = <<pushed[1][2]>>

(***************************************************************************)
(* Properties of the build (specification SpecBuild).                      *)
(***************************************************************************)
\* The calls so far that ran the build steps.
Ran == {k \in 1..Len(builds) : builds[k].ran}

\* C23: over the build(), start() and show_graph() calls of a camera the
\* build steps run at most once, and once as soon as one of them was made;
\* build() on a built camera raises 'Pipeline can be built only once!';
\* start() and show_graph() on a built camera raise nothing and do not
\* build; and the outputs the camera holds are those of the one build.
C23_BuiltAtMostOnce ==
    /\ Cardinality(Ran) <= 1
    /\ (builds # <<>>) => Ran = {1}
    /\ pipeline_built <=> Ran # {}
    /\ \A k \in 1..Len(builds) :
          /\ (builds[k].call = "build" /\ builds[k].built) =>
                 builds[k].error = BuiltOnlyOnce /\ ~builds[k].ran
          /\ (builds[k].call # "build" /\ builds[k].built) =>
                 builds[k].error = NoError /\ ~builds[k].ran
    /\ \A k \in Ran : oak_out_streams = Built(builds[k].templates).xouts
    /\ Ran = {} => oak_out_streams = <<>>

\* show_graph() built the pipeline of one template, a second template was
\* registered, build() raised, and start() started the camera with the
\* output of the first build.
C23_Witness ==
    /\ Len(builds) = 3
    /\ builds[1].call = "show_graph" /\ builds[1].ran
    /\ builds[2].call = "build" /\ builds[2].error = BuiltOnlyOnce
    /\ builds[3].call = "start" /\ ~builds[3].ran
    /\ Len(builds[1].templates) = 1
    /\ Len(out_templates) = 2
    /\ Len(oak_out_streams) = 1
    /\ pc = "idle"

(***************************************************************************)
(* Properties of the tracker option (specification SpecTracker).           *)
(***************************************************************************)
\* C24: a build of a camera whose components with a tracker are all
\* object detectors ends without an error; a build of a camera whose
\* components with a tracker are all other models ends with the error
\* 'Currently, only object detector models (Yolo/MobileNet) can use
\* tracker!'.
C24_TrackerOnDetectors ==
    \A k \in Ran :
        LET tracked == {j \in 1..Len(builds[k].components) :
                            builds[k].components[j].tracker}
            detectors == {j \in tracked : builds[k].components[j].detector}
        IN  /\ tracked = detectors => builds[k].error = NoError
            /\ (tracked # {} /\ detectors = {}) =>
                   builds[k].error = OnlyDetectors

(***************************************************************************)
(* Names over setups of every kind (specification SpecSetups).             *)
(***************************************************************************)
\* The setups so far that produced an output.
Produced == {k \in 1..Len(setups) : setups[k].result # ValueError}

\* C25: after any sequence of OutputConfig, SyncConfig and RecordConfig
\* setups with one names list, the outputs produced have pairwise distinct
\* names, and the name of each of them is in the names list.
C25_NamesDistinctAcrossKinds ==
    /\ \A a, b \in Produced :
          setups[a].result = setups[b].result => a = b
    /\ \A a \in Produced : In(setups[a].result, names)

(***************************************************************************)
(* Two cameras of one process (specification SpecCameras).                 *)
(***************************************************************************)
\* The camera whose registration call appended template j.
Owner(j) ==
    LET k == CHOOSE k \in 1..Len(registrations) :
                 /\ Len(registrations[k].before) < j
                 /\ j <= Len(registrations[k].before)
                            + Len(registrations[k].output.elems)
    IN  registrations[k].camera

\* C26: a camera builds the templates registered on it and the components
\* created on it, and no others: what is registered or created on the
\* first camera is not built by the second, and the other way round.
C26_CamerasIsolated ==
    /\ other.pipeline_built =>
          /\ \A j \in 1..Len(other.templates) : Owner(j) = "B"
          /\ other.components = <<>>
    /\ \A k \in Ran :
          \A j \in 1..Len(builds[k].templates) : Owner(j) = "A"

(***************************************************************************)
(* Termination of find_new_name (specification SpecNames).                 *)
(***************************************************************************)
\* The number a name ends with after its last ' ', -1 when it ends with
\* none.
TrailingNumber(name) ==
    LET num == SubSeq(name, last_space(name) + 1, Len(name))
    IN  IF isnumeric(num) /\ ~int_raises(num) THEN int(num) ELSE -1

\* The passes of the loop of find_new_name(name, list) up to its return or
\* the exception that leaves it.
RECURSIVE Iterations(_, _)
Iterations(name, list) ==
    IF rewrite(name) = ValueError \/ ~In(rewrite(name), list) THEN 1
    ELSE 1 + Iterations(rewrite(name), list)

\* C28: for every name and every names list, find_new_name returns a name
\* after at most len(names) + 1 passes of its loop; every pass yields a
\* name that ends with a larger number than the one before; the name
\* returned is not in the list and is not the name passed in.
C28_FindNewNameTerminates ==
    \A name \in Requests :
        /\ find_new_name(name, names) # ValueError
        /\ find_new_name(name, names) # name
        /\ ~In(find_new_name(name, names), names)
        /\ Iterations(name, names) <= Len(names) + 1
        /\ \A m \in 1..Iterations(name, names) :
              /\ Rewritten(name, m) # ValueError
              /\ TrailingNumber(Rewritten(name, m))
                     > TrailingNumber(Rewritten(name, m - 1))

(***************************************************************************)
(* Repeated close() calls (specification SpecRecorder).                    *)
(***************************************************************************)
\* C29: whatever the number of close() calls, no writer is closed more
\* than once; and once a close() call has been made, every writer of the
\* recorder that can be closed has been closed exactly once, also when the
\* close of another writer raised.
C29_CloseIdempotent ==
    /\ \A r \in 1..Len(recorders) :
          \A k \in 1..Len(recorders[r].writer) :
              recorders[r].writer[k].closed <= 1
    /\ \A c \in 1..Len(closes) :
          LET W == recorders[closes[c].recorder].writer
          IN  \A k \in 1..Len(W) : ~W[k].faulty => W[k].closed = 1

(***************************************************************************)
(* ROS streaming (specification SpecRos).                                  *)
(***************************************************************************)
\* The messages whose new_ros_msg call has returned.
Enqueued ==
    IF ros.pending THEN SubSeq(ros.sent, 1, Len(ros.sent) - 1) ELSE ros.sent

\* C30: the messages published and the messages waiting in the queue are,
\* in this order, the messages enqueued, so that none is published twice
\* or out of order; no topic has its publisher created twice; a
\* new_ros_msg call that has not returned can return, or will be able to
\* once the thread has taken a message; and once the thread has left its
\* loop no message is left unpublished.
C30_RosPublishesEveryMessage ==
    /\ ros.published \o ros.queue = Enqueued
    /\ \A a, b \in 1..Len(ros.created) :
          ros.created[a] = ros.created[b] => a = b
    /\ ros.pending => (ENABLED queue_put \/ ros.pc # "done")
    /\ ros.pc = "done" => ros.published = ros.sent

====
